---------------------------- MODULE Spec2Model ----------------------------
(***************************************************************************)
(* State-machine model of frontend/app.js: the dashboard's bot lifecycle   *)
(* orchestration (create->start chain, start/stop/delete/logs, the         *)
(* periodic roster refresh), the register, login, logout and add-key       *)
(* handlers, as seen by one document from its load to its teardown.  The   *)
(* remote service is an environment that may accept or refuse any request; *)
(* the network may lose any request or response.  Deleting a credential    *)
(* (handleDeleteApiKey) is left out.                                       *)
(*                                                                         *)
(* The sinks the script only ever writes to (notification elements, the    *)
(* console, the credential table and selector, the log modal) and the      *)
(* confirm() dialog are modelled by what the latest step wrote to them or  *)
(* was answered.  A reply's texts (error, logs) and a rejection's          *)
(* error.message are drawn when they are read.                             *)
(*                                                                         *)
(* User-visible texts of the source are Cyrillic; string literals here are *)
(* their Latin transliterations.                                           *)
(***************************************************************************)
EXTENDS Naturals, Sequences, FiniteSets, Bags, TLC

\* ------------------------------------------------------------------ bounds
\* Bot ids the service can hand out.
MaxBots == 1
\* Requests/responses that may be in flight together.
MaxInFlight == 2
\* Credentials the service stores.
MaxKeys == 2
\* Bots in one GET /bots reply handed to the renderer on its own.
MaxRows == 2

Bots == 1 .. MaxBots

\* --------------------------------------------------------------- constants
\* Notification texts (showNotification's first argument).
MsgConnection == "Oshibka podklyucheniya k serveru"
MsgLoadKeysFailed == "Oshibka zagruzki klyuchey"
MsgLoadBotsFailed == "Oshibka zagruzki botov"
MsgCreateFailed == "Oshibka sozdaniya bota"
MsgCreatedStarted == "Bot sozdan i zapushchen!"
MsgCreatedNotStarted == "Bot sozdan, no ne zapushchen"
MsgStarted == "Bot zapushchen"
MsgStartFailed == "Oshibka zapuska bota"
MsgStopped == "Bot ostanovlen"
MsgStopFailed == "Oshibka ostanovki bota"
MsgDeleted == "Bot udalen"
MsgDeleteFailed == "Oshibka udaleniya bota"
MsgLogsFailed == "Oshibka zagruzki logov"
NoLogsText == "Net logov"
MsgRegistered == "Uspeshno! Perenapravlenie..."
MsgRegisterFailed == "Oshibka registratsii"
MsgLoggedIn == "Vkhod vypolnen!"
MsgLoginFailed == "Nevernyy email ili parol"
MsgKeyAdded == "API klyuch dobavlen"
MsgAddKeyFailed == "Oshibka dobavleniya klyucha"
DefaultUserName == "Polzovatel"

\* Pages the script is loaded on (the last segment of location.pathname).
Pages == {"", "index.html", "login.html", "dashboard.html"}

\* An error text a service reply may carry in `error`; "" is an absent one.
ServerErrors == {"", "exchange rejected"}
\* error.message of a rejected fetch() or response.json(): the text is
\* implementation-defined (TypeError / SyntaxError), "" included.
ErrorTexts == {"", "Failed to fetch"}
\* Log text a service reply may carry; "" is an empty log.
LogTexts == {"", "log line"}

\* JavaScript's  a || b  on strings: the empty string is falsy.
Or(a, b) == IF a # "" THEN a ELSE b

VARIABLES
    location,            \* page of this document
    localStorage,        \* [user_id, user_name]; "" is an absent item
    listeners,           \* event listeners the script has registered
    ready,               \* DOMContentLoaded has fired
    torn,                \* beforeunload has fired
    href,                \* navigation target assigned to location.href ("" none)
    botsUpdateInterval,  \* the global timer handle; 0 is undefined
    timers,              \* ids of the interval timers the browser holds
    net,                 \* bag of requests/responses in flight
    serverBots,          \* the service's bots: id -> absent/stopped/running
    serverKeys,          \* the service's credentials (sequence of keys)
    botsBody,            \* rows of #botsBody
    userName,            \* text of #userName
    emitted,             \* what the latest step wrote to the write-only sinks
    createBtnDisabled,   \* disabled flag of the create form's submit button
    dialog,              \* confirm() of the latest step: "none", "ok", "cancel"
    submitDisabled,      \* forms (register, login, add key) whose submit button
                         \* is disabled
    timeouts             \* targets of the pending setTimeout redirects

vars == <<location, localStorage, listeners, ready, torn, href,
          botsUpdateInterval, timers, net, serverBots, serverKeys, botsBody,
          userName, emitted, createBtnDisabled, dialog, submitDisabled,
          timeouts>>

\* Groups of variables, for the frame conditions.
formVars == <<submitDisabled, timeouts>>
docVars == <<location, localStorage, listeners, ready, torn, href, userName,
             formVars>>
timerVars == <<botsUpdateInterval, timers>>
serverVars == <<serverBots, serverKeys>>

\* ------------------------------------------------------------ session store
getUserId == localStorage.user_id

\* ------------------------------------------------------- notification sink
\* A write to a sink: the text written, or the rows of a table.
Write(sink, message, type, rows) ==
    [sink |-> sink, message |-> message, type |-> type, rows |-> rows]

\* showNotification(message, type): one more notification element.
showNotification(message, type) ==
    <<Write("notification", message, type, <<>>)>>

\* console.error(label, error)
consoleError(label) == <<Write("console", label, "error", <<>>)>>

\* logsContent.textContent = text; modal.style.display = 'block'
showLogs(text) ==
    <<Write("logsContent", text, "textContent", <<>>),
      Write("logsModal", "block", "display", <<>>)>>

\* modal.style.display = 'none'
hideLogs == <<Write("logsModal", "none", "display", <<>>)>>

\* apiKeysBody.innerHTML = rows; select.innerHTML = options
showKeys(rows, options) ==
    <<Write("apiKeysBody", "", "innerHTML", rows),
      Write("apiKeySelect", "", "innerHTML", options)>>

\* A step that writes to no sink and opens no dialog.
Quiet == emitted' = <<>> /\ dialog' = "none"
Says(message, type) == emitted' = showNotification(message, type) /\ dialog' = "none"

\* ----------------------------------------------------------------- network
\* A request or response in flight.  kind names the fetch call (and so its
\* continuation); by tells a timer-driven loadBots from a called one.
Msg(kind, bot, by) ==
    [kind |-> kind, bot |-> bot, by |-> by, stage |-> "request",
     ok |-> FALSE, bots |-> <<>>, keys |-> <<>>]

InFlight == BagToSet(net)
Room(n) == BagCardinality(net) + n <= MaxInFlight
Send(bag, m) == bag (+) SetToBag({m})
Take(bag, m) == bag (-) SetToBag({m})

\* The fetches of one kind: all of them, those whose parsed reply waits for
\* the .then continuation, and those whose rejection waits for the .catch.
Pending(kind) == {m \in InFlight : m.kind = kind}
Responses(kind) == {m \in InFlight : m.kind = kind /\ m.stage = "response"}
Failures(kind) == {m \in InFlight : m.kind = kind /\ m.stage = "failed"}

\* fetch() or response.json() rejects: the request never reached the
\* service, or its reply was lost or did not parse.
Reject(m) == [m EXCEPT !.stage = "failed", !.ok = FALSE, !.bots = <<>>,
                       !.keys = <<>>]

NetworkFail(m) ==
    /\ m \in InFlight
    /\ m.stage \in {"request", "response"}
    /\ net' = Send(Take(net, m), Reject(m))
    /\ emitted' = <<>>
    /\ dialog' = "none"
    /\ UNCHANGED <<location, localStorage, listeners, ready, torn, href,
                   userName, botsUpdateInterval, timers, serverBots,
                   serverKeys, botsBody, createBtnDisabled, formVars>>

\* ----------------------------------------------------------- remote service
Status == {"absent", "stopped", "running"}

\* GET /bots: the bots that exist, in id order.
BotList(sb) ==
    LET all == [i \in 1 .. MaxBots |-> [id |-> i, status |-> sb[i]]]
    IN  SelectSeq(all, LAMBDA b : b.status # "absent")

Refuse(m) == [m EXCEPT !.stage = "response", !.ok = FALSE]
Accept(m) == [m EXCEPT !.stage = "response", !.ok = TRUE]

\* The service answers request m: it accepts it (with its effect on the
\* service's state) or refuses it with {success: false, error?}.
ServerHandle(m) ==
    /\ m \in InFlight
    /\ m.stage = "request"
    /\ \/ /\ net' = Send(Take(net, m), Refuse(m))
          /\ UNCHANGED serverVars
       \/ /\ m.kind = "loadBots"
          /\ net' = Send(Take(net, m),
                         [Accept(m) EXCEPT !.bots = BotList(serverBots)])
          /\ UNCHANGED serverVars
       \/ /\ m.kind = "loadApiKeys"
          /\ net' = Send(Take(net, m), [Accept(m) EXCEPT !.keys = serverKeys])
          /\ UNCHANGED serverVars
       \/ /\ m.kind = "create"
          /\ \E b \in Bots :
                /\ serverBots[b] = "absent"
                /\ serverBots' = [serverBots EXCEPT ![b] = "stopped"]
                /\ UNCHANGED serverKeys
                /\ net' = Send(Take(net, m), [Accept(m) EXCEPT !.bot = b])
       \/ /\ m.kind \in {"createStart", "start"}
          /\ m.bot \in Bots
          /\ serverBots[m.bot] # "absent"
          /\ serverBots' = [serverBots EXCEPT ![m.bot] = "running"]
          /\ UNCHANGED serverKeys
          /\ net' = Send(Take(net, m), Accept(m))
       \/ /\ m.kind = "stop"
          /\ m.bot \in Bots
          /\ serverBots[m.bot] # "absent"
          /\ serverBots' = [serverBots EXCEPT ![m.bot] = "stopped"]
          /\ UNCHANGED serverKeys
          /\ net' = Send(Take(net, m), Accept(m))
       \/ /\ m.kind = "delete"
          /\ m.bot \in Bots
          /\ serverBots[m.bot] # "absent"
          /\ serverBots' = [serverBots EXCEPT ![m.bot] = "absent"]
          /\ UNCHANGED serverKeys
          /\ net' = Send(Take(net, m), Accept(m))
       \/ /\ m.kind = "logs"
          /\ m.bot \in Bots
          /\ serverBots[m.bot] # "absent"
          /\ net' = Send(Take(net, m), Accept(m))
          /\ UNCHANGED serverVars
       \/ /\ m.kind \in {"register", "login"}
          /\ net' = Send(Take(net, m), Accept(m))
          /\ UNCHANGED serverVars
       \/ /\ m.kind = "addApiKey"
          /\ Len(serverKeys) < MaxKeys
          /\ serverKeys' = Append(serverKeys, [id |-> Len(serverKeys) + 1])
          /\ net' = Send(Take(net, m), Accept(m))
          /\ UNCHANGED serverBots
    /\ Quiet
    /\ UNCHANGED <<docVars, timerVars, botsBody, createBtnDisabled>>

\* ----------------------------------------------------------- roster renderer
PlaceholderRow == [id |-> 0, statusText |-> "Net botov", buttons |-> {}]

\* BotRow that offers the start button to a stopped bot only.
BotRowStoppedOnly(bot) ==
    [id |-> bot.id,
     statusText |-> IF bot.status = "running" THEN "Running" ELSE "Stopped",
     buttons |->
        (IF bot.status = "running" THEN {<<"handleStopBot", bot.id>>}
         ELSE IF bot.status = "stopped" THEN {<<"handleStartBot", bot.id>>}
         ELSE {})
        \cup {<<"handleShowLogs", bot.id>>, <<"handleDeleteBot", bot.id>>}]

BotRow(bot) ==
    [id |-> bot.id,
     statusText |-> IF bot.status = "running" THEN "Running" ELSE "Stopped",
     buttons |->
        {<<IF bot.status = "running" THEN "handleStopBot" ELSE "handleStartBot",
           bot.id>>,
         <<"handleShowLogs", bot.id>>,
         <<"handleDeleteBot", bot.id>>}]

\* renderBots without its test for an empty collection.
renderBotsNoPlaceholder(bots) ==
    [i \in 1 .. Len(bots) |-> BotRow(bots[i])]

\* The new innerHTML of #botsBody (the assignment replaces the old rows).
renderBots(bots) ==
    IF Len(bots) = 0
    THEN <<PlaceholderRow>>
    ELSE [i \in 1 .. Len(bots) |-> BotRow(bots[i])]

\* The row buttons a user can press.
Offered(action, b) ==
    \E i \in 1 .. Len(botsBody) : <<action, b>> \in botsBody[i].buttons

\* ------------------------------------------------------ credential registry
KeyPlaceholderRow == [id |-> 0, buttons |-> {}]

renderApiKeys(keys) ==
    IF Len(keys) = 0
    THEN <<KeyPlaceholderRow>>
    ELSE [i \in 1 .. Len(keys) |->
            [id |-> keys[i].id,
             buttons |-> {<<"handleDeleteApiKey", keys[i].id>>}]]

updateApiKeySelect(keys) ==
    <<0>> \o [i \in 1 .. Len(keys) |-> keys[i].id]

\* ----------------------------------------------------------------- loadBots
\* loadBots(): GET /bots.  by is "timer" for the interval's call.
loadBots(bag, by) == Send(bag, Msg("loadBots", 0, by))

\* LoadBotsThen that drops a reply while another loadBots is in flight.
LoadBotsThenDropOlder(m) ==
    /\ m \in Responses("loadBots")
    /\ net' = Take(net, m)
    /\ IF m.ok
       THEN /\ botsBody' = IF Pending("loadBots") = {m} /\ CopiesIn(m, net) = 1
                           THEN renderBots(m.bots)
                           ELSE botsBody
            /\ Quiet
       ELSE /\ \E e \in ServerErrors : Says(Or(e, MsgLoadBotsFailed), "error")
            /\ UNCHANGED botsBody
    /\ UNCHANGED <<docVars, timerVars, serverVars, createBtnDisabled>>

\* LoadBotsThen that renders into an empty table only.
LoadBotsThenOnce(m) ==
    /\ m \in Responses("loadBots")
    /\ net' = Take(net, m)
    /\ IF m.ok
       THEN /\ botsBody' = IF botsBody = <<>> THEN renderBots(m.bots)
                           ELSE botsBody
            /\ Quiet
       ELSE /\ \E e \in ServerErrors : Says(Or(e, MsgLoadBotsFailed), "error")
            /\ UNCHANGED botsBody
    /\ UNCHANGED <<docVars, timerVars, serverVars, createBtnDisabled>>

\* LoadBotsThen whose rendering adds its rows to those already there.
LoadBotsThenAppend(m) ==
    /\ m \in Responses("loadBots")
    /\ net' = Take(net, m)
    /\ IF m.ok
       THEN /\ botsBody' = botsBody \o renderBots(m.bots)
            /\ Quiet
       ELSE /\ \E e \in ServerErrors : Says(Or(e, MsgLoadBotsFailed), "error")
            /\ UNCHANGED botsBody
    /\ UNCHANGED <<docVars, timerVars, serverVars, createBtnDisabled>>

\* .then(data => ...) of loadBots, on the parsed reply m.
LoadBotsThen(m) ==
    /\ m \in Responses("loadBots")
    /\ net' = Take(net, m)
    /\ IF m.ok
       THEN /\ botsBody' = renderBots(m.bots)
            /\ Quiet
       ELSE /\ \E e \in ServerErrors : Says(Or(e, MsgLoadBotsFailed), "error")
            /\ UNCHANGED botsBody
    /\ UNCHANGED <<docVars, timerVars, serverVars, createBtnDisabled>>

\* LoadBotsCatch that also gives up polling: it clears the interval.
LoadBotsCatchFatal(m) ==
    /\ m \in Failures("loadBots")
    /\ net' = Take(net, m)
    /\ emitted' = consoleError("Oshibka zagruzki botov:")
    /\ dialog' = "none"
    /\ timers' = timers \ {botsUpdateInterval}
    /\ UNCHANGED <<docVars, botsUpdateInterval, serverVars, botsBody,
                   createBtnDisabled>>

\* LoadBotsCatch that tries again: it repeats the request.
LoadBotsCatchRetry(m) ==
    /\ m \in Failures("loadBots")
    /\ net' = loadBots(Take(net, m), m.by)
    /\ emitted' = consoleError("Oshibka zagruzki botov:")
    /\ dialog' = "none"
    /\ UNCHANGED <<docVars, timerVars, serverVars, botsBody,
                   createBtnDisabled>>

\* .catch(error => ...) of loadBots.
LoadBotsCatch(m) ==
    /\ m \in Failures("loadBots")
    /\ net' = Take(net, m)
    /\ emitted' = consoleError("Oshibka zagruzki botov:")
    /\ dialog' = "none"
    /\ UNCHANGED <<docVars, timerVars, serverVars, botsBody,
                   createBtnDisabled>>

\* -------------------------------------------------------------- loadApiKeys
loadApiKeys(bag) == Send(bag, Msg("loadApiKeys", 0, "call"))

LoadApiKeysThen(m) ==
    /\ m \in Responses("loadApiKeys")
    /\ net' = Take(net, m)
    /\ IF m.ok
       THEN /\ emitted' = showKeys(renderApiKeys(m.keys),
                                   updateApiKeySelect(m.keys))
            /\ dialog' = "none"
       ELSE \E e \in ServerErrors : Says(Or(e, MsgLoadKeysFailed), "error")
    /\ UNCHANGED <<docVars, timerVars, serverVars, botsBody, createBtnDisabled>>

LoadApiKeysCatch(m) ==
    /\ m \in Failures("loadApiKeys")
    /\ net' = Take(net, m)
    /\ Says(MsgConnection, "error")
    /\ UNCHANGED <<docVars, timerVars, serverVars, botsBody,
                   createBtnDisabled>>

\* --------------------------------------------------------- page life cycle
Largest(S) == IF S = {} THEN 0 ELSE CHOOSE n \in S : \A k \in S : k <= n

\* setInterval(...): the id (a positive number) of the browser's new timer.
setInterval(ts) == Largest(ts) + 1

DashboardListeners ==
    {"logoutBtn.click", "addApiKeyForm.submit", "createBotForm.submit",
     "close.click", "window.click"}

\* DOMContentLoaded without the return after its redirect: the dashboard
\* is set up for a missing user as well.
DOMContentLoadedNoReturn ==
    /\ ~ready
    /\ ~torn
    /\ ready' = TRUE
    /\ IF location \in {"index.html", ""}
       THEN /\ listeners' = listeners \cup {"registerForm.submit"}
            /\ UNCHANGED <<href, userName, net, timerVars>>
       ELSE IF location = "login.html"
       THEN /\ listeners' = listeners \cup {"loginForm.submit"}
            /\ UNCHANGED <<href, userName, net, timerVars>>
       ELSE /\ href' = IF getUserId = "" THEN "login.html" ELSE href
            /\ userName' = Or(localStorage.user_name, DefaultUserName)
            /\ listeners' = listeners \cup DashboardListeners
            /\ net' = loadBots(loadApiKeys(net), "call")
            /\ botsUpdateInterval' = setInterval(timers)
            /\ timers' = timers \cup {setInterval(timers)}
    /\ Quiet
    /\ UNCHANGED <<location, localStorage, torn, serverVars, botsBody,
                   createBtnDisabled, formVars>>

\* The DOMContentLoaded listener.
DOMContentLoaded ==
    /\ ~ready
    /\ ~torn
    /\ ready' = TRUE
    /\ IF location \in {"index.html", ""}
       THEN /\ listeners' = listeners \cup {"registerForm.submit"}
            /\ UNCHANGED <<href, userName, net, timerVars>>
       ELSE IF location = "login.html"
       THEN /\ listeners' = listeners \cup {"loginForm.submit"}
            /\ UNCHANGED <<href, userName, net, timerVars>>
       ELSE IF getUserId = ""
       THEN /\ href' = "login.html"
            /\ UNCHANGED <<listeners, userName, net, timerVars>>
       ELSE /\ userName' = Or(localStorage.user_name, DefaultUserName)
            /\ listeners' = listeners \cup DashboardListeners
            /\ net' = loadBots(loadApiKeys(net), "call")
            /\ botsUpdateInterval' = setInterval(timers)
            /\ timers' = timers \cup {setInterval(timers)}
            /\ UNCHANGED href
    /\ Quiet
    /\ UNCHANGED <<location, localStorage, torn, serverVars, botsBody,
                   createBtnDisabled, formVars>>

\* BeforeUnload without its clearInterval.
BeforeUnloadNoClear ==
    /\ torn' = TRUE
    /\ Quiet
    /\ UNCHANGED <<location, localStorage, listeners, ready, href, userName,
                   timerVars, net, serverVars, botsBody, createBtnDisabled,
                   formVars>>

\* The beforeunload listener.
BeforeUnload ==
    /\ torn' = TRUE
    /\ timers' = IF botsUpdateInterval # 0
                 THEN timers \ {botsUpdateInterval}
                 ELSE timers
    /\ Quiet
    /\ UNCHANGED <<location, localStorage, listeners, ready, href, userName,
                   botsUpdateInterval, net, serverVars, botsBody,
                   createBtnDisabled, formVars>>

\* Tick whose callback arms one more interval.
TickRearm ==
    /\ timers # {}
    /\ Room(1)
    /\ net' = loadBots(net, "timer")
    /\ botsUpdateInterval' = setInterval(timers)
    /\ timers' = timers \cup {setInterval(timers)}
    /\ Quiet
    /\ UNCHANGED <<docVars, serverVars, botsBody, createBtnDisabled>>

\* One firing of an interval timer: setInterval(loadBots, 5000).
Tick ==
    /\ timers # {}
    /\ Room(1)
    /\ net' = loadBots(net, "timer")
    /\ Quiet
    /\ UNCHANGED <<docVars, timerVars, serverVars, botsBody,
                   createBtnDisabled>>

\* ---------------------------------------------------------- handleCreateBot
\* The submit listener of #createBotForm, up to its fetch of POST /bots.  A
\* form whose submit button is disabled is not submitted by the browser.
HandleCreateBot ==
    /\ "createBotForm.submit" \in listeners
    /\ ~createBtnDisabled
    /\ Room(1)
    /\ createBtnDisabled' = TRUE
    /\ net' = Send(net, Msg("create", 0, "call"))
    /\ Quiet
    /\ UNCHANGED <<docVars, timerVars, serverVars, botsBody>>

\* CreateBotCatch that leaves the submit button disabled.
CreateBotCatchStuck(m, message) ==
    /\ net' = Take(net, m)
    /\ Says(Or(message, MsgConnection), "error")
    /\ UNCHANGED <<docVars, timerVars, serverVars, botsBody,
                   createBtnDisabled>>

\* .catch(error => ...) of handleCreateBot, entered with error.message.
CreateBotCatch(m, message) ==
    /\ net' = Take(net, m)
    /\ Says(Or(message, MsgConnection), "error")
    /\ createBtnDisabled' = FALSE
    /\ UNCHANGED <<docVars, timerVars, serverVars, botsBody>>

\* CreateBotThen without its test of data.success: the start request goes
\* out whatever the create reply says.
CreateBotThenUnchecked(m) ==
    /\ m \in Responses("create")
    /\ net' = Send(Take(net, m),
                   Msg("createStart", IF m.ok THEN m.bot ELSE 1, "call"))
    /\ Quiet
    /\ UNCHANGED <<docVars, timerVars, serverVars, botsBody,
                   createBtnDisabled>>

\* The first .then(data => ...) of handleCreateBot, on the reply to POST /bots:
\* it starts the new bot, or throws into the .catch.
CreateBotThen(m) ==
    /\ m \in Responses("create")
    /\ IF m.ok
       THEN /\ net' = Send(Take(net, m), Msg("createStart", m.bot, "call"))
            /\ Quiet
            /\ UNCHANGED <<docVars, timerVars, serverVars, botsBody,
                           createBtnDisabled>>
       ELSE \E e \in ServerErrors : CreateBotCatch(m, Or(e, MsgCreateFailed))

\* The second .then(data => ...) of handleCreateBot, on the reply to
\* POST /bots/{id}/start.
CreateBotStartThen(m) ==
    /\ m \in Responses("createStart")
    /\ IF m.ok
       THEN Says(MsgCreatedStarted, "success")
       ELSE \E e \in ServerErrors : Says(Or(e, MsgCreatedNotStarted), "error")
    /\ net' = loadBots(Take(net, m), "call")
    /\ createBtnDisabled' = FALSE
    /\ UNCHANGED <<docVars, timerVars, serverVars, botsBody>>

\* The .catch of handleCreateBot after either of its fetches rejected.
CreateBotReject(m) ==
    /\ m \in Failures("create") \cup Failures("createStart")
    /\ \E e \in ErrorTexts : CreateBotCatch(m, e)

\* ----------------------------------------------------------- handleStartBot
HandleStartBot(botId) ==
    /\ Offered("handleStartBot", botId)
    /\ Room(1)
    /\ net' = Send(net, Msg("start", botId, "call"))
    /\ Quiet
    /\ UNCHANGED <<docVars, timerVars, serverVars, botsBody,
                   createBtnDisabled>>

\* StartBotThen that does not refresh the roster after a success.
StartBotThenNoRefresh(m) ==
    /\ m \in Responses("start")
    /\ IF m.ok
       THEN Says(MsgStarted, "success")
       ELSE \E e \in ServerErrors : Says(Or(e, MsgStartFailed), "error")
    /\ net' = Take(net, m)
    /\ UNCHANGED <<docVars, timerVars, serverVars, botsBody,
                   createBtnDisabled>>

\* .then(data => ...) of handleStartBot.
StartBotThen(m) ==
    /\ m \in Responses("start")
    /\ IF m.ok
       THEN /\ Says(MsgStarted, "success")
            /\ net' = loadBots(Take(net, m), "call")
       ELSE /\ \E e \in ServerErrors : Says(Or(e, MsgStartFailed), "error")
            /\ net' = Take(net, m)
    /\ UNCHANGED <<docVars, timerVars, serverVars, botsBody,
                   createBtnDisabled>>

StartBotCatch(m) ==
    /\ m \in Failures("start")
    /\ Says(MsgConnection, "error")
    /\ net' = Take(net, m)
    /\ UNCHANGED <<docVars, timerVars, serverVars, botsBody,
                   createBtnDisabled>>

\* ------------------------------------------------------------ handleStopBot
HandleStopBot(botId) ==
    /\ Offered("handleStopBot", botId)
    /\ Room(1)
    /\ net' = Send(net, Msg("stop", botId, "call"))
    /\ Quiet
    /\ UNCHANGED <<docVars, timerVars, serverVars, botsBody,
                   createBtnDisabled>>

\* StopBotThen that refreshes the roster after a refusal as well.
StopBotThenRefreshAlways(m) ==
    /\ m \in Responses("stop")
    /\ IF m.ok
       THEN Says(MsgStopped, "success")
       ELSE \E e \in ServerErrors : Says(Or(e, MsgStopFailed), "error")
    /\ net' = loadBots(Take(net, m), "call")
    /\ UNCHANGED <<docVars, timerVars, serverVars, botsBody,
                   createBtnDisabled>>

\* .then(data => ...) of handleStopBot.
StopBotThen(m) ==
    /\ m \in Responses("stop")
    /\ IF m.ok
       THEN /\ Says(MsgStopped, "success")
            /\ net' = loadBots(Take(net, m), "call")
       ELSE /\ \E e \in ServerErrors : Says(Or(e, MsgStopFailed), "error")
            /\ net' = Take(net, m)
    /\ UNCHANGED <<docVars, timerVars, serverVars, botsBody,
                   createBtnDisabled>>

StopBotCatch(m) ==
    /\ m \in Failures("stop")
    /\ Says(MsgConnection, "error")
    /\ net' = Take(net, m)
    /\ UNCHANGED <<docVars, timerVars, serverVars, botsBody,
                   createBtnDisabled>>

\* ---------------------------------------------------------- handleDeleteBot
\* HandleDeleteBot that asks but does not heed the answer.
HandleDeleteBotUnconfirmed(botId, answer) ==
    /\ Offered("handleDeleteBot", botId)
    /\ Room(1)
    /\ dialog' = IF answer THEN "ok" ELSE "cancel"
    /\ emitted' = <<>>
    /\ net' = Send(net, Msg("delete", botId, "call"))
    /\ UNCHANGED <<docVars, timerVars, serverVars, botsBody,
                   createBtnDisabled>>

\* answer is what confirm(...) returns: TRUE for OK, FALSE for Cancel.
HandleDeleteBot(botId, answer) ==
    /\ Offered("handleDeleteBot", botId)
    /\ Room(1)
    /\ dialog' = IF answer THEN "ok" ELSE "cancel"
    /\ emitted' = <<>>
    /\ IF ~answer
       THEN UNCHANGED net
       ELSE net' = Send(net, Msg("delete", botId, "call"))
    /\ UNCHANGED <<docVars, timerVars, serverVars, botsBody,
                   createBtnDisabled>>

DeleteBotThen(m) ==
    /\ m \in Responses("delete")
    /\ IF m.ok
       THEN /\ Says(MsgDeleted, "success")
            /\ net' = loadBots(Take(net, m), "call")
       ELSE /\ \E e \in ServerErrors : Says(Or(e, MsgDeleteFailed), "error")
            /\ net' = Take(net, m)
    /\ UNCHANGED <<docVars, timerVars, serverVars, botsBody,
                   createBtnDisabled>>

DeleteBotCatch(m) ==
    /\ m \in Failures("delete")
    /\ Says(MsgConnection, "error")
    /\ net' = Take(net, m)
    /\ UNCHANGED <<docVars, timerVars, serverVars, botsBody,
                   createBtnDisabled>>

\* ----------------------------------------------------------- handleShowLogs
HandleShowLogs(botId) ==
    /\ Offered("handleShowLogs", botId)
    /\ Room(1)
    /\ net' = Send(net, Msg("logs", botId, "call"))
    /\ Quiet
    /\ UNCHANGED <<docVars, timerVars, serverVars, botsBody,
                   createBtnDisabled>>

ShowLogsThen(m) ==
    /\ m \in Responses("logs")
    /\ net' = Take(net, m)
    /\ IF m.ok
       THEN /\ \E l \in LogTexts : emitted' = showLogs(Or(l, NoLogsText))
            /\ dialog' = "none"
       ELSE \E e \in ServerErrors : Says(Or(e, MsgLogsFailed), "error")
    /\ UNCHANGED <<docVars, timerVars, serverVars, botsBody,
                   createBtnDisabled>>

ShowLogsCatch(m) ==
    /\ m \in Failures("logs")
    /\ Says(MsgConnection, "error")
    /\ net' = Take(net, m)
    /\ UNCHANGED <<docVars, timerVars, serverVars, botsBody,
                   createBtnDisabled>>

\* closeBtn.onclick, and window.onclick on the modal itself.
CloseLogsModal ==
    /\ "close.click" \in listeners
    /\ emitted' = hideLogs
    /\ dialog' = "none"
    /\ UNCHANGED <<docVars, timerVars, net, serverVars, botsBody,
                   createBtnDisabled>>

\* ------------------------------------------------------------ authentication
\* What a step of the three simple forms leaves alone.
FormFrame ==
    UNCHANGED <<location, listeners, ready, torn, userName, timerVars,
                serverVars, botsBody, createBtnDisabled>>

\* The submit listener of #registerForm.
HandleRegister ==
    /\ "registerForm.submit" \in listeners
    /\ "registerForm" \notin submitDisabled
    /\ Room(1)
    /\ submitDisabled' = submitDisabled \cup {"registerForm"}
    /\ net' = Send(net, Msg("register", 0, "call"))
    /\ Quiet
    /\ FormFrame
    /\ UNCHANGED <<localStorage, href, timeouts>>

\* .then(data => ...) of handleRegister.
RegisterThen(m) ==
    /\ m \in Responses("register")
    /\ net' = Take(net, m)
    /\ IF m.ok
       THEN /\ Says(MsgRegistered, "success")
            /\ timeouts' = timeouts \cup {"login.html"}
            /\ UNCHANGED submitDisabled
       ELSE /\ \E e \in ServerErrors : Says(Or(e, MsgRegisterFailed), "error")
            /\ submitDisabled' = submitDisabled \ {"registerForm"}
            /\ UNCHANGED timeouts
    /\ FormFrame
    /\ UNCHANGED <<localStorage, href>>

\* .catch(error => ...) of handleRegister.
RegisterCatch(m) ==
    /\ m \in Failures("register")
    /\ net' = Take(net, m)
    /\ Says(MsgConnection, "error")
    /\ submitDisabled' = submitDisabled \ {"registerForm"}
    /\ FormFrame
    /\ UNCHANGED <<localStorage, href, timeouts>>

\* The submit listener of #loginForm.
HandleLogin ==
    /\ "loginForm.submit" \in listeners
    /\ "loginForm" \notin submitDisabled
    /\ Room(1)
    /\ submitDisabled' = submitDisabled \cup {"loginForm"}
    /\ net' = Send(net, Msg("login", 0, "call"))
    /\ Quiet
    /\ FormFrame
    /\ UNCHANGED <<localStorage, href, timeouts>>

\* .then(data => ...) of handleLogin; the reply names user 1.
LoginThen(m) ==
    /\ m \in Responses("login")
    /\ net' = Take(net, m)
    /\ IF m.ok
       THEN /\ localStorage' = [user_id |-> "1", user_name |-> "name"]
            /\ Says(MsgLoggedIn, "success")
            /\ timeouts' = timeouts \cup {"dashboard.html"}
            /\ UNCHANGED submitDisabled
       ELSE /\ \E e \in ServerErrors : Says(Or(e, MsgLoginFailed), "error")
            /\ submitDisabled' = submitDisabled \ {"loginForm"}
            /\ UNCHANGED <<localStorage, timeouts>>
    /\ FormFrame
    /\ UNCHANGED href

\* .catch(error => ...) of handleLogin.
LoginCatch(m) ==
    /\ m \in Failures("login")
    /\ net' = Take(net, m)
    /\ Says(MsgConnection, "error")
    /\ submitDisabled' = submitDisabled \ {"loginForm"}
    /\ FormFrame
    /\ UNCHANGED <<localStorage, href, timeouts>>

\* The click listener of #logoutBtn: localStorage.clear() and the redirect.
HandleLogout ==
    /\ "logoutBtn.click" \in listeners
    /\ localStorage' = [user_id |-> "", user_name |-> ""]
    /\ href' = "login.html"
    /\ Quiet
    /\ FormFrame
    /\ UNCHANGED <<net, formVars>>

\* A setTimeout callback of handleRegister / handleLogin fires:
\* window.location.href = target.
RedirectTimeout ==
    /\ \E t \in timeouts :
          /\ href' = t
          /\ timeouts' = timeouts \ {t}
    /\ Quiet
    /\ FormFrame
    /\ UNCHANGED <<localStorage, net, submitDisabled>>

\* ---------------------------------------------------------- handleAddApiKey
\* The submit listener of #addApiKeyForm.
HandleAddApiKey ==
    /\ "addApiKeyForm.submit" \in listeners
    /\ "addApiKeyForm" \notin submitDisabled
    /\ Room(1)
    /\ submitDisabled' = submitDisabled \cup {"addApiKeyForm"}
    /\ net' = Send(net, Msg("addApiKey", 0, "call"))
    /\ Quiet
    /\ FormFrame
    /\ UNCHANGED <<localStorage, href, timeouts>>

\* .then(data => ...) of handleAddApiKey.
AddApiKeyThen(m) ==
    /\ m \in Responses("addApiKey")
    /\ IF m.ok
       THEN /\ Says(MsgKeyAdded, "success")
            /\ net' = loadApiKeys(Take(net, m))
       ELSE /\ \E e \in ServerErrors : Says(Or(e, MsgAddKeyFailed), "error")
            /\ net' = Take(net, m)
    /\ submitDisabled' = submitDisabled \ {"addApiKeyForm"}
    /\ FormFrame
    /\ UNCHANGED <<localStorage, href, timeouts>>

\* .catch(error => ...) of handleAddApiKey.
AddApiKeyCatch(m) ==
    /\ m \in Failures("addApiKey")
    /\ net' = Take(net, m)
    /\ Says(MsgConnection, "error")
    /\ submitDisabled' = submitDisabled \ {"addApiKeyForm"}
    /\ FormFrame
    /\ UNCHANGED <<localStorage, href, timeouts>>

\* -------------------------------------------------------------- the machine
\* A freshly loaded document, before DOMContentLoaded; the storage and the
\* service hold whatever earlier sessions left.
Init ==
    /\ location \in Pages
    /\ localStorage \in {[user_id |-> "", user_name |-> ""],
                         [user_id |-> "1", user_name |-> "name"]}
    /\ listeners = {}
    /\ ready = FALSE
    /\ torn = FALSE
    /\ href = ""
    /\ botsUpdateInterval = 0
    /\ timers = {}
    /\ net = EmptyBag
    /\ serverBots \in [Bots -> Status]
    /\ serverKeys = <<[id |-> 1]>>
    /\ botsBody = <<>>
    /\ userName = ""
    /\ emitted = <<>>
    /\ createBtnDisabled = FALSE
    /\ dialog = "none"
    /\ submitDisabled = {}
    /\ timeouts = {}

Next ==
    \/ DOMContentLoaded
    \/ BeforeUnload
    \/ Tick
    \/ HandleCreateBot
    \/ CloseLogsModal
    \/ HandleRegister
    \/ HandleLogin
    \/ HandleLogout
    \/ RedirectTimeout
    \/ HandleAddApiKey
    \/ \E b \in Bots : HandleStartBot(b)
    \/ \E b \in Bots : HandleStopBot(b)
    \/ \E b \in Bots, answer \in BOOLEAN : HandleDeleteBot(b, answer)
    \/ \E b \in Bots : HandleShowLogs(b)
    \/ \E m \in InFlight : ServerHandle(m)
    \/ \E m \in InFlight : NetworkFail(m)
    \/ \E m \in InFlight : LoadBotsThen(m)
    \/ \E m \in InFlight : LoadBotsCatch(m)
    \/ \E m \in InFlight : LoadApiKeysThen(m)
    \/ \E m \in InFlight : LoadApiKeysCatch(m)
    \/ \E m \in InFlight : CreateBotThen(m)
    \/ \E m \in InFlight : CreateBotStartThen(m)
    \/ \E m \in InFlight : CreateBotReject(m)
    \/ \E m \in InFlight : StartBotThen(m)
    \/ \E m \in InFlight : StartBotCatch(m)
    \/ \E m \in InFlight : StopBotThen(m)
    \/ \E m \in InFlight : StopBotCatch(m)
    \/ \E m \in InFlight : DeleteBotThen(m)
    \/ \E m \in InFlight : DeleteBotCatch(m)
    \/ \E m \in InFlight : ShowLogsThen(m)
    \/ \E m \in InFlight : ShowLogsCatch(m)
    \/ \E m \in InFlight : RegisterThen(m)
    \/ \E m \in InFlight : RegisterCatch(m)
    \/ \E m \in InFlight : LoginThen(m)
    \/ \E m \in InFlight : LoginCatch(m)
    \/ \E m \in InFlight : AddApiKeyThen(m)
    \/ \E m \in InFlight : AddApiKeyCatch(m)

Spec == Init /\ [][Next]_vars

\* Some fetch in flight makes progress: the service answers it, or its
\* promise settles and the continuation runs.
Settle ==
    \E m \in InFlight :
        \/ ServerHandle(m) \/ NetworkFail(m)
        \/ LoadBotsThen(m) \/ LoadBotsCatch(m)
        \/ LoadApiKeysThen(m) \/ LoadApiKeysCatch(m)
        \/ CreateBotThen(m) \/ CreateBotStartThen(m) \/ CreateBotReject(m)
        \/ StartBotThen(m) \/ StartBotCatch(m)
        \/ StopBotThen(m) \/ StopBotCatch(m)
        \/ DeleteBotThen(m) \/ DeleteBotCatch(m)
        \/ ShowLogsThen(m) \/ ShowLogsCatch(m)
        \/ RegisterThen(m) \/ RegisterCatch(m)
        \/ LoginThen(m) \/ LoginCatch(m)
        \/ AddApiKeyThen(m) \/ AddApiKeyCatch(m)

\* The create->start chain of the pending submission makes progress.
SettleChain ==
    \E m \in Pending("create") \cup Pending("createStart") :
        \/ ServerHandle(m) \/ NetworkFail(m)
        \/ CreateBotThen(m) \/ CreateBotStartThen(m) \/ CreateBotReject(m)

\* The event loop: every fetch settles in the end, and an armed interval
\* timer keeps firing.
LiveSpec ==
    Spec /\ WF_vars(Settle) /\ WF_vars(SettleChain) /\ SF_vars(Tick)

\* ------------------------------------------------------- the renderer alone
\* renderBots applied to any collection a GET /bots reply may carry: bots of
\* any status, in any order, ids repeated or not.
RenderStatuses == {"running", "stopped", "paused"}
RenderBot == [id : 1 .. MaxRows, status : RenderStatuses]
Collections == UNION {[1 .. n -> RenderBot] : n \in 0 .. MaxRows}

\* A success = true reply to loadBots() with this payload.
BotsReply(bots) == [Accept(Msg("loadBots", 0, "call")) EXCEPT !.bots = bots]

\* The service's reply to a loadBots() arrives.
Deliver(bots) ==
    /\ net = EmptyBag
    /\ net' = Send(net, BotsReply(bots))
    /\ Quiet
    /\ UNCHANGED <<docVars, timerVars, serverVars, botsBody,
                   createBtnDisabled>>

\* The loaded dashboard, nothing rendered yet, with one reply on its way.
RenderInit ==
    /\ location = "dashboard.html"
    /\ localStorage = [user_id |-> "1", user_name |-> "name"]
    /\ listeners = DashboardListeners
    /\ ready = TRUE
    /\ torn = FALSE
    /\ href = ""
    /\ botsUpdateInterval = 1
    /\ timers = {1}
    /\ net \in {SetToBag({BotsReply(bots)}) : bots \in Collections}
    /\ serverBots = [b \in Bots |-> "absent"]
    /\ serverKeys = <<[id |-> 1]>>
    /\ botsBody = <<>>
    /\ userName = "name"
    /\ emitted = <<>>
    /\ createBtnDisabled = FALSE
    /\ dialog = "none"
    /\ submitDisabled = {}
    /\ timeouts = {}

RenderNext ==
    \/ \E bots \in Collections : Deliver(bots)
    \/ \E m \in InFlight : LoadBotsThen(m)

RenderSpec == RenderInit /\ [][RenderNext]_vars

\* ---------------------------------------------------------------- claims
\* A request of this shape joins the requests in flight in this step.
Issued(r) == CopiesIn(r, net') > CopiesIn(r, net)
\* Message m leaves the network in this step.
Consumed(m) == CopiesIn(m, net') < CopiesIn(m, net)
\* The continuation of m's fetch (its .then on a reply, its .catch on a
\* rejection) runs in this step.
Read(m) ==
    /\ m.stage \in {"response", "failed"}
    /\ Consumed(m)
    /\ ~Issued(Reject(m))

ChainPending == Pending("create") \cup Pending("createStart") # {}

\* C1: the start request of handleCreateBot is issued only in the step that
\* reads a success = true reply to the create request (for the bot that
\* reply names), and never while the create request is still pending; so a
\* refused or lost create is never followed by a start.
C1_StartOnlyAfterCreateSucceeded ==
    /\ [](Pending("create") = {} \/ Pending("createStart") = {})
    /\ [][\A b \in Bots :
            Issued(Msg("createStart", b, "call")) =>
                \E c \in Responses("create") :
                    c.ok /\ c.bot = b /\ Read(c)]_vars

C1_Witness ==
    \E m \in Pending("createStart") : m.stage = "request"

\* The notifications among the writes of the latest step.
Notifications(w) == SelectSeq(w, LAMBDA x : x.sink = "notification")

\* C2: when the create succeeded and the start request is answered with
\* success = false, the notification shown is "Bot sozdan, no ne zapushchen"
\* whatever error text the reply carries.
C2_PartialFailureMessage ==
    [][\A m \in Responses("createStart") :
          (~m.ok /\ Read(m)) =>
              emitted' = showNotification(MsgCreatedNotStarted, "error")]_vars

\* C3: when the create succeeded and the start fails in any way (a
\* success = false reply, or a rejected fetch), the handler calls loadBots().
C3_RefreshAfterStartFailure ==
    [][\A m \in Pending("createStart") :
          (Read(m) /\ (m.stage = "failed" \/ ~m.ok))
              => Issued(Msg("loadBots", 0, "call"))]_vars

\* C4: the submit button of the create form is disabled exactly while the
\* create or the start request of a submission is pending, and a disabled
\* button is re-enabled in the end, whatever the outcome.
C4_ButtonDisabledDuringChain ==
    /\ [](createBtnDisabled <=> ChainPending)
    /\ (createBtnDisabled ~> ~createBtnDisabled)

C4_Witness ==
    /\ ~createBtnDisabled
    /\ emitted = showNotification(MsgCreatedNotStarted, "error")

\* C5: the interval timer and its handle change only in the dashboard's
\* DOMContentLoaded step (which creates the timer) and in the beforeunload
\* step (which clears it), and never more than one timer exists.
C5_SingleTimer ==
    /\ [](Cardinality(timers) <= 1)
    /\ [][(timers' # timers \/ botsUpdateInterval' # botsUpdateInterval) =>
            \/ /\ DOMContentLoaded
               /\ location = "dashboard.html"
               /\ timers = {}
               /\ timers' = {botsUpdateInterval'}
            \/ /\ BeforeUnload
               /\ timers' = {}]_vars

C5_Witness ==
    /\ Cardinality(timers) = 1
    /\ \E m \in Pending("loadBots") : m.by = "timer"

\* C6: once beforeunload has run, no interval timer exists and no
\* timer-driven loadBots request is issued any more.
C6_NoTimerAfterTeardown ==
    /\ [](torn => timers = {})
    /\ [][torn => ~Issued(Msg("loadBots", 0, "timer"))]_vars

C6_Witness ==
    /\ torn
    /\ botsUpdateInterval # 0
    /\ timers = {}

\* A loadBots fetch of the timer ends in failure in this step.
TickFailed(m) ==
    /\ m.kind = "loadBots"
    /\ m.by = "timer"
    /\ Read(m)
    /\ m.stage = "failed" \/ ~m.ok

\* C7: a failed refresh tick leaves the timer armed and the rendered roster
\* as it was, and the timer can fire again at once; and as long as the timer
\* stays armed it keeps firing.
C7_FailedTickNotFatal ==
    /\ [][\A m \in InFlight :
            TickFailed(m) =>
                /\ timers' = timers
                /\ botsUpdateInterval' = botsUpdateInterval
                /\ botsBody' = botsBody
                /\ (timers # {} => BagCardinality(net') < MaxInFlight)]_vars
    /\ (<>[](timers # {}) => []<><<Tick>>_vars)

C7_Witness ==
    /\ timers # {}
    /\ botsBody # <<>>
    /\ \E m \in Failures("loadBots") : m.by = "timer"

\* C8: no failed refresh tick, whether its fetch was rejected or answered
\* with success = false, produces a notification.
C8_SilentOnAnyFailure ==
    [][\A m \in InFlight :
          TickFailed(m) => Notifications(emitted') = <<>>]_vars

\* C9: a rejected fetch of any request but loadBots is reported with the
\* notification "Oshibka podklyucheniya k serveru".
C9_ConnectionErrorNotification ==
    [][\A m \in InFlight :
          (m.kind # "loadBots" /\ m.stage = "failed" /\ Read(m)) =>
              emitted' = showNotification(MsgConnection, "error")]_vars

\* C10: a DELETE request is issued only in a step whose confirm() was
\* answered OK, and a step whose confirm() was cancelled issues no request.
C10_DeleteNeedsConfirmation ==
    [][/\ \A b \in Bots : Issued(Msg("delete", b, "call")) => dialog' = "ok"
       /\ dialog' = "cancel" => net' = net]_vars

C10_Witness ==
    /\ dialog = "cancel"
    /\ \E b \in Bots : Offered("handleDeleteBot", b)

\* The requests of the row actions start, stop and delete.
RowActions == {"start", "stop", "delete"}
LoadBotsCall == Msg("loadBots", 0, "call")

\* C11: the step that reads a success = true reply to a start, stop or delete
\* request issues exactly one loadBots request and nothing else; the step
\* that sends such a request issues no loadBots and renders nothing; and a
\* called loadBots is issued only on page load, at the end of the create
\* chain, or on such a success.
C11_RefreshAfterSuccess ==
    /\ [][\A m \in InFlight :
            (m.kind \in RowActions /\ m.stage = "response" /\ m.ok /\ Read(m))
                => net' = Send(Take(net, m), LoadBotsCall)]_vars
    /\ [][\A k \in RowActions, b \in Bots :
            Issued(Msg(k, b, "call")) =>
                ~Issued(LoadBotsCall) /\ botsBody' = botsBody]_vars
    /\ [][Issued(LoadBotsCall) =>
            \/ ~ready /\ ready'
            \/ \E m \in Responses("createStart") : Read(m)
            \/ \E m \in InFlight :
                  m.kind \in RowActions /\ m.stage = "response" /\ m.ok
                  /\ Read(m)]_vars

C11_Witness ==
    /\ emitted = showNotification(MsgStarted, "success")
    /\ LoadBotsCall \in InFlight

\* C12: the step that reads a failed start, stop or delete (a success = false
\* reply or a rejected fetch) only removes that fetch: it issues no request
\* and leaves #botsBody alone; and #botsBody changes only in a step that
\* reads a success = true loadBots reply, to the rendering of its payload.
C12_FailedActionLeavesRoster ==
    /\ [][\A m \in InFlight :
            (m.kind \in RowActions /\ Read(m) /\ (m.stage = "failed" \/ ~m.ok))
                => net' = Take(net, m) /\ botsBody' = botsBody]_vars
    /\ [][botsBody' # botsBody =>
            \E m \in Responses("loadBots") :
                m.ok /\ Read(m) /\ botsBody' = renderBots(m.bots)]_vars

C12_Witness ==
    /\ emitted = showNotification(MsgStopFailed, "error")
    /\ \E b \in Bots : Offered("handleStopBot", b)

\* The form whose submit button the fetch of this kind disabled.
FormOf(kind) ==
    CASE kind = "register" -> "registerForm"
      [] kind = "login" -> "loginForm"
      [] kind = "addApiKey" -> "addApiKeyForm"
      [] OTHER -> "createBotForm"

\* The action that sent fetch m is resolved by the step that reads m: m is
\* the last fetch of its action.
Resolves(m) ==
    /\ Read(m)
    /\ m.kind \in {"register", "login", "addApiKey", "create", "createStart"}
    /\ m.kind = "create" =>
          \A b \in Bots : ~Issued(Msg("createStart", b, "call"))

\* C13: when an action of the register, login, add-key or create form is
\* resolved, with success or with failure, the form's submit button is
\* enabled.
C13_ControlsReenabled ==
    [][\A m \in InFlight :
          Resolves(m) =>
              /\ FormOf(m.kind) \notin submitDisabled'
              /\ FormOf(m.kind) = "createBotForm" => ~createBtnDisabled']_vars

\* The request that fetch m was when it was issued.
RequestOf(m) == Msg(m.kind, IF m.kind = "create" THEN 0 ELSE m.bot, m.by)

\* Every request the script can issue.
Requests ==
    {Msg(k, b, by) :
       k \in {"loadBots", "loadApiKeys", "create", "createStart", "start",
              "stop", "delete", "logs", "register", "login", "addApiKey"},
       b \in 0 .. MaxBots, by \in {"call", "timer"}}

\* C14: no step issues the same request twice; the step that reads a fetch,
\* failed or answered, never issues that request again; the step that reads
\* a rejected or refused fetch issues no request at all, but for the roster
\* refresh after a refused start of the create chain; and a submission has
\* at most one create or start request in flight.
C14_NoAutomaticRetry ==
    /\ [][\A r \in Requests : CopiesIn(r, net') <= CopiesIn(r, net) + 1]_vars
    /\ [][\A m \in InFlight :
            Read(m) =>
                /\ ~Issued(RequestOf(m))
                /\ (m.stage = "failed" \/ ~m.ok) =>
                      \/ net' = Take(net, m)
                      \/ /\ m.kind = "createStart" /\ m.stage = "response"
                         /\ net' = Send(Take(net, m), LoadBotsCall)]_vars
    /\ [](/\ Cardinality(Pending("create") \cup Pending("createStart")) <= 1
          /\ \A m \in Pending("create") \cup Pending("createStart") :
                CopiesIn(m, net) = 1)

C14_Witness ==
    /\ emitted = consoleError("Oshibka zagruzki botov:")
    /\ net = EmptyBag
    /\ timers # {}

\* The step renders the payload of reply m.
Renders(m) == m.kind = "loadBots" /\ m.stage = "response" /\ m.ok /\ Read(m)

\* C15: rendering a collection the table already shows the rendering of
\* leaves the table as it is, and after every render the table has one row
\* per bot of the collection just rendered, in its order (one row for an
\* empty collection), whatever it held before.
C15_RenderIdempotent ==
    [][\A m \in InFlight :
          Renders(m) =>
              /\ botsBody = renderBots(m.bots) => botsBody' = botsBody
              /\ Len(botsBody') = IF m.bots = <<>> THEN 1 ELSE Len(m.bots)
              /\ \A i \in 1 .. Len(m.bots) :
                    botsBody'[i].id = m.bots[i].id]_vars

C15_Witness ==
    \E m \in Responses("loadBots") :
        /\ m.ok
        /\ Len(m.bots) = MaxRows
        /\ botsBody = renderBots(m.bots)

\* C16: an empty collection renders as exactly one row, the placeholder,
\* which has no button; a non-empty one renders no placeholder row.
C16_PlaceholderRow ==
    [][\A m \in InFlight :
          Renders(m) =>
              IF Len(m.bots) = 0
              THEN /\ botsBody' = <<PlaceholderRow>>
                   /\ botsBody'[1].buttons = {}
                   /\ botsBody'[1].id = 0
              ELSE \A i \in 1 .. Len(botsBody') :
                     /\ botsBody'[i] # PlaceholderRow
                     /\ botsBody'[i].buttons # {}]_vars

C16_Witness ==
    /\ botsBody = <<PlaceholderRow>>
    /\ \E m \in Responses("loadBots") : Len(m.bots) > 0

\* C17: the row of a running bot has the stop button and no start button,
\* the row of a bot of any other status the start button and no stop button;
\* every row has the logs and the delete button; and a row's buttons all
\* carry that row's bot id.
C17_ButtonsByStatus ==
    [][\A m \in InFlight :
          Renders(m) =>
              \A i \in 1 .. Len(m.bots) :
                  LET bot == m.bots[i]
                      buttons == botsBody'[i].buttons
                  IN  /\ <<"handleStopBot", bot.id>> \in buttons
                            <=> bot.status = "running"
                      /\ <<"handleStartBot", bot.id>> \in buttons
                            <=> bot.status # "running"
                      /\ <<"handleShowLogs", bot.id>> \in buttons
                      /\ <<"handleDeleteBot", bot.id>> \in buttons
                      /\ \A x \in buttons : x[2] = bot.id
                      /\ Cardinality(buttons) = 3]_vars

C17_Witness ==
    /\ Len(botsBody) = MaxRows
    /\ <<"handleStopBot", botsBody[1].id>> \in botsBody[1].buttons
    /\ <<"handleStartBot", botsBody[2].id>> \in botsBody[2].buttons

\* C18: whichever loadBots requests are in flight and in whatever order
\* they were issued, the step in which a success = true reply reaches its
\* continuation renders that reply's payload; no step takes more than one
\* fetch out of the network, and a loadBots fetch that leaves it has had its
\* continuation run (rendered, reported or logged), the others staying in
\* flight; and between two renders the table stays as it is.
C18_LastResponseWins ==
    /\ [][\A m \in InFlight : Renders(m) => botsBody' = renderBots(m.bots)]_vars
    /\ [][/\ BagCardinality(net') >= BagCardinality(net) - 1
          /\ \A m \in Pending("loadBots") :
                Read(m) =>
                    /\ CopiesIn(m, net') = CopiesIn(m, net) - 1
                    /\ \A o \in Pending("loadBots") \ {m} : ~Consumed(o)
                    /\ (m.stage = "response" /\ ~m.ok) =>
                          Notifications(emitted') # <<>>
                    /\ m.stage = "failed" =>
                          emitted' = consoleError("Oshibka zagruzki botov:")]_vars
    /\ [][(\A m \in InFlight : ~Renders(m)) => botsBody' = botsBody]_vars

C18_Witness ==
    \E m1, m2 \in Responses("loadBots") :
        /\ m1.ok /\ m2.ok
        /\ m1.by = "timer" /\ m2.by = "call"
        /\ m1.bots # m2.bots
        /\ m2.bots = BotList(serverBots)

\* The table shows the service's bots as they are now.
UpToDate == botsBody = renderBots(BotList(serverBots))

\* A loadBots fetch is refused by the service or rejected in this step.
LoadBotsLost ==
    \E m \in Pending("loadBots") :
        m.stage # "failed" /\ (Issued(Refuse(m)) \/ Issued(Reject(m)))

\* C19: rendering a reply that carries the service's present bots brings
\* the table up to date, whatever stale reply was rendered before; and if
\* from some point on the timer stays armed, the service's bots no longer
\* change and no loadBots fetch is refused or rejected, then from some point
\* on the table shows the service's bots.
C19_SelfCorrects ==
    /\ [][\A m \in InFlight :
            (Renders(m) /\ m.bots = BotList(serverBots)) =>
                botsBody' = renderBots(BotList(serverBots'))]_vars
    /\ (/\ <>[](timers # {})
        /\ <>[][serverBots' = serverBots]_vars
        /\ <>[][~LoadBotsLost]_vars)
           => <>[]UpToDate

C19_Witness ==
    /\ timers # {}
    /\ net = EmptyBag
    /\ botsBody # <<>>
    /\ ~UpToDate

\* The dashboard document of a visitor without a stored user id.
NoUser == location = "dashboard.html" /\ getUserId = ""

\* C20: on the dashboard without a stored user id, the DOMContentLoaded step
\* assigns location.href = 'login.html' and does nothing else; and in a
\* document that came up so (no user id, and no logout listener that could
\* have cleared one) no request is ever in flight, no listener registered
\* and no timer created.
C20_NoUserRedirect ==
    /\ [][(NoUser /\ ~ready /\ ready') =>
            /\ href' = "login.html"
            /\ UNCHANGED <<net, timers, botsUpdateInterval, listeners,
                           userName, botsBody, emitted>>]_vars
    /\ [](NoUser /\ "logoutBtn.click" \notin listeners =>
            /\ net = EmptyBag
            /\ timers = {}
            /\ botsUpdateInterval = 0
            /\ listeners = {}
            /\ ready => href = "login.html")

C20_Witness == NoUser /\ ready /\ href = "login.html"

=============================================================================
